---- MODULE Spec2Model ----
(***************************************************************************)
(* Model of Phaser's WebGL DrawingContext                                  *)
(* (src/renderer/webgl/DrawingContext.js).                                 *)
(*                                                                         *)
(* Numbers that stand for sizes (width, height, scissor box and viewport   *)
(* components) are fixed-point: the integer n stands for n / SizeDen, so   *)
(* that fractional requests and Math.round are representable.              *)
(* JavaScript arrays are [id, v] records: id is the identity of the array  *)
(* object (two arrays are the same storage iff their ids are equal), v its *)
(* elements.  GPU resources are numeric handles, 0 standing for null.      *)
(***************************************************************************)
EXTENDS Integers, Sequences, FiniteSets, TLC

\* ---------------------------------------------------------------- bounds

\* Number of DrawingContext objects the caller may construct.
MaxCtx == 2

\* Number of GPU handles (textures and framebuffers) the renderer hands out.
MaxHandles == 6

\* Number of calls (constructions included) made by the caller.
MaxOps == 4

\* Calls made in a run in which every operation is available.
MaxAllOps == 3

\* State descriptors obtained from the factory.
MaxDescs == 2

\* Denominator of the fixed-point representation of sizes.
SizeDen == 4

\* ------------------------------------------------------------- constants

Null == 0

COLOR_BUFFER_BIT == 16384
DEPTH_BUFFER_BIT == 256
STENCIL_BUFFER_BIT == 1024

Ctx == 1..MaxCtx

\* A whole number n in the fixed-point representation.
Num(n) == n * SizeDen

IsInteger(x) == x % SizeDen = 0

\* The array that is not there (undefined).
NoArr == [id |-> 0, v |-> <<>>]

\* ------------------------------------------------------ the renderer side

\* renderer.blendModes: the table setBlendMode indexes.
blendModes ==
    [i \in 0..1 |->
        IF i = 0
        THEN [enable |-> "true", equation |-> "FUNC_ADD", func |-> "ONE,ONE_MINUS_SRC_ALPHA"]
        ELSE [enable |-> "false", equation |-> "FUNC_REVERSE_SUBTRACT", func |-> "ZERO,ONE_MINUS_SRC_ALPHA"]]

\* The state of the GPU resource provider: the next fresh handle, the
\* textures and framebuffers created so far, and the handles deleted so far.
NoGpu ==
    [next |-> 1, textures |-> {}, framebuffers |-> {},
     deletedTextures |-> {}, deletedFramebuffers |-> {}]

\* The handles created so far.
Created(g) == 1..(g.next - 1)

\* renderer.createTextureFromSource(null, width, height, 0, true)
createTextureFromSource(g, width, height) ==
    [g EXCEPT !.next = @ + 1,
              !.textures = @ \cup {[h |-> g.next, width |-> width, height |-> height]}]

\* renderer.createFramebuffer(texture, ...): texture is Null for the canvas.
createFramebuffer(g, texture) ==
    [g EXCEPT !.next = @ + 1,
              !.framebuffers = @ \cup {[h |-> g.next, texture |-> texture]}]

\* renderer.deleteTexture(texture): deleting null is a no-op.
deleteTexture(g, texture) ==
    IF texture = Null THEN g ELSE [g EXCEPT !.deletedTextures = @ \cup {texture}]

\* renderer.deleteFramebuffer(framebuffer): deleting null is a no-op.
deleteFramebuffer(g, framebuffer) ==
    IF framebuffer = Null THEN g ELSE [g EXCEPT !.deletedFramebuffers = @ \cup {framebuffer}]

\* ------------------------------------------------------------ the machine

\* An object before its constructor has run (fields as the constructor's
\* first assignments leave them; alive is set when the constructor returns).
NoContext ==
    [alive |-> FALSE,
     camera |-> "null",
     state |-> [bindings |-> [framebuffer |-> Null],
                blend |-> [color |-> NoArr, enable |-> "undefined",
                           equation |-> "undefined", func |-> "undefined"],
                colorClearValue |-> NoArr,
                scissor |-> [box |-> NoArr, enable |-> TRUE],
                viewport |-> NoArr],
     blendMode |-> -1,
     autoClear |-> 0,
     useCanvas |-> FALSE,
     framebuffer |-> Null,
     texture |-> Null,
     inUse |-> FALSE,
     width |-> 0,
     height |-> 0]

VARIABLES
    ctxs,       \* the DrawingContext objects, by slot
    gpu,        \* the renderer's GPU resources
    rsize,      \* <<renderer.width, renderer.height>>
    listeners,  \* the contexts subscribed to the renderer's RESIZE event
    ops,        \* number of calls made so far
    last,       \* what the last call was and did
    applied,    \* the state descriptor the GL wrapper applied last
    batch,      \* the renderer's current batch node (Null when none)
    fac         \* the objects of the state descriptor factory and its callers

vars == <<ctxs, gpu, rsize, listeners, ops, last, applied, batch, fac>>

\* The identities of the arrays some context refers to.
ArrayIds(cs) ==
    UNION {{cs[c].state.colorClearValue.id, cs[c].state.scissor.box.id,
            cs[c].state.viewport.id, cs[c].state.blend.color.id} : c \in Ctx} \ {0}

\* The identity of a newly allocated array: one that no live array has.
FreshId(used) == CHOOSE n \in 1..(Cardinality(used) + 1) : n \notin used /\ \A k \in 1..(n - 1) : k \in used

\* m is the machine during a call: the contexts, the GPU resources, the
\* listeners, the array identities in use, and what the call did so far.
Machine ==
    [ctxs |-> ctxs, gpu |-> gpu, listeners |-> listeners, used |-> ArrayIds(ctxs),
     fault |-> FALSE, lookup |-> FALSE, applied |-> applied, batch |-> batch, ev |-> <<>>]

\* [ a, b, c, d ]: allocate a new array with the elements v.
NewArray(m, v) == [id |-> FreshId(m.used), v |-> v]

Allocated(m, arr) == [m EXCEPT !.used = @ \cup {arr.id}]

\* ------------------------------------------------------------ the methods

\* Math.round left out: the number as it is (a faulty variant).
MathRoundOmitted(x) == x

\* Math.round on a fixed-point number: the nearest integer, halves upwards.
MathRound(x) == ((2 * x + SizeDen) \div (2 * SizeDen)) * SizeDen

\* ClampSize with the comparison < in place of <= (a faulty variant).
ClampSizeNegativeOnly(x) == IF x < 0 THEN Num(1) ELSE x

\* resize: if (width <= 0) { width = 1; }
ClampSize(x) == IF x <= 0 THEN Num(1) ELSE x

\* ResizeResources keeping a framebuffer that exists, with or without the
\* canvas (a faulty variant).
ResizeResourcesKeep(self, g, width, height) ==
    IF self.framebuffer # Null
    THEN [gpu |-> g, texture |-> self.texture, framebuffer |-> self.framebuffer]
    ELSE IF self.useCanvas
    THEN [gpu |-> createFramebuffer(g, Null), texture |-> self.texture, framebuffer |-> g.next]
    ELSE LET g3 == createTextureFromSource(g, width, height)
         IN  [gpu |-> createFramebuffer(g3, g.next), texture |-> g.next, framebuffer |-> g3.next]

\* ResizeResources wrapping the canvas anew on every call (a faulty
\* variant).
ResizeResourcesRewrap(self, g, width, height) ==
    IF ~self.useCanvas
    THEN LET g1 == deleteTexture(g, self.texture)
             g2 == deleteFramebuffer(g1, self.state.bindings.framebuffer)
             g3 == createTextureFromSource(g2, width, height)
             g4 == createFramebuffer(g3, g2.next)
         IN  [gpu |-> g4, texture |-> g2.next, framebuffer |-> g3.next]
    ELSE [gpu |-> createFramebuffer(g, Null), texture |-> self.texture, framebuffer |-> g.next]

\* resize: the GPU resources after the call's deletions and creations, as
\* [gpu, texture, framebuffer].
ResizeResources(self, g, width, height) ==
    IF ~self.useCanvas
    THEN LET g1 == deleteTexture(g, self.texture)
             g2 == deleteFramebuffer(g1, self.state.bindings.framebuffer)
             g3 == createTextureFromSource(g2, width, height)
             g4 == createFramebuffer(g3, g2.next)
         IN  [gpu |-> g4, texture |-> g2.next, framebuffer |-> g3.next]
    ELSE IF self.framebuffer = Null
    THEN [gpu |-> createFramebuffer(g, Null), texture |-> self.texture, framebuffer |-> g.next]
    ELSE [gpu |-> g, texture |-> self.texture, framebuffer |-> self.framebuffer]

\* resize: this.state.scissor.box = [ 0, 0, width, height ] and the same for
\* this.state.viewport, each a new array.
ResizeBoxes(m, c, width, height) ==
    LET box == NewArray(m, <<0, 0, width, height>>)
        m1 == Allocated(m, box)
        viewport == NewArray(m1, <<0, 0, width, height>>)
        m2 == Allocated(m1, viewport)
    IN  [m2 EXCEPT !.ctxs[c].state.scissor.box = box,
                   !.ctxs[c].state.viewport = viewport]

\* resize leaving state.bindings.framebuffer as it was (a faulty variant).
resizeBindingKept(m, c, width, height) ==
    LET w == ClampSize(MathRound(width))
        h == ClampSize(MathRound(height))
        r == ResizeResources(m.ctxs[c], m.gpu, w, h)
        m1 == [m EXCEPT !.gpu = r.gpu,
                        !.ctxs[c].texture = r.texture,
                        !.ctxs[c].framebuffer = r.framebuffer,
                        !.ctxs[c].width = w,
                        !.ctxs[c].height = h]
    IN  ResizeBoxes(m1, c, w, h)

resize(m, c, width, height) ==
    LET w == ClampSize(MathRound(width))
        h == ClampSize(MathRound(height))
        r == ResizeResources(m.ctxs[c], m.gpu, w, h)
        m1 == [m EXCEPT !.gpu = r.gpu,
                        !.ctxs[c].texture = r.texture,
                        !.ctxs[c].framebuffer = r.framebuffer,
                        !.ctxs[c].state.bindings.framebuffer = r.framebuffer,
                        !.ctxs[c].width = w,
                        !.ctxs[c].height = h]
    IN  ResizeBoxes(m1, c, w, h)

\* array.slice(): a new array with the same elements.
slice(m, arr) == NewArray(m, arr.v)

\* copy: blend.color && blend.color.slice()
SliceColor(m, color) == IF color.id = 0 THEN color ELSE slice(m, color)

\* copy: the new state object built from the source's.
CopyState(m, state) ==
    LET color == SliceColor(m, state.blend.color)
        m1 == Allocated(m, color)
        colorClearValue == slice(m1, state.colorClearValue)
        m2 == Allocated(m1, colorClearValue)
        box == slice(m2, state.scissor.box)
        m3 == Allocated(m2, box)
        viewport == slice(m3, state.viewport)
    IN  [bindings |-> [framebuffer |-> state.bindings.framebuffer],
         blend |-> [color |-> color, enable |-> state.blend.enable,
                    equation |-> state.blend.equation, func |-> state.blend.func],
         colorClearValue |-> colorClearValue,
         scissor |-> [box |-> box, enable |-> state.scissor.enable],
         viewport |-> viewport]

\* CopyFields without the assignment of autoClear (a faulty variant).
CopyFieldsKeepAutoClear(self, source) ==
    [self EXCEPT !.useCanvas = source.useCanvas,
                 !.framebuffer = source.framebuffer,
                 !.texture = source.texture,
                 !.camera = source.camera,
                 !.blendMode = source.blendMode]

\* copy: the fields assigned from the source before the state is rebuilt.
CopyFields(self, source) ==
    [self EXCEPT !.autoClear = source.autoClear,
                 !.useCanvas = source.useCanvas,
                 !.framebuffer = source.framebuffer,
                 !.texture = source.texture,
                 !.camera = source.camera,
                 !.blendMode = source.blendMode]

\* copy without the final resize, the sizes assigned directly (a faulty
\* variant).
copyWithoutResize(m, c, s) ==
    LET source == m.ctxs[s]
        state == CopyState(m, source.state)
    IN  [m EXCEPT !.ctxs[c] = [CopyFields(m.ctxs[c], source) EXCEPT
                                   !.state = state, !.width = source.width, !.height = source.height],
                  !.used = @ \cup {state.blend.color.id, state.colorClearValue.id,
                                   state.scissor.box.id, state.viewport.id}]

\* copy(source): the fields, the new state object, then
\* this.resize(source.width, source.height).
copy(m, c, s) ==
    LET source == m.ctxs[s]
        state == CopyState(m, source.state)
        m1 == [m EXCEPT !.ctxs[c] = [CopyFields(m.ctxs[c], source) EXCEPT !.state = state],
                        !.used = @ \cup {state.blend.color.id, state.colorClearValue.id,
                                         state.scissor.box.id, state.viewport.id}]
    IN  resize(m1, c, source.width, source.height)

\* setAutoClear: the mask of the buffers to clear.
AutoClearMask(color, depth, stencil) ==
    (IF color THEN COLOR_BUFFER_BIT ELSE 0) + (IF depth THEN DEPTH_BUFFER_BIT ELSE 0)
        + (IF stencil THEN STENCIL_BUFFER_BIT ELSE 0)

setAutoClear(m, c, color, depth, stencil) ==
    [m EXCEPT !.ctxs[c].autoClear = AutoClearMask(color, depth, stencil)]

\* setBlendMode without the early return for the current blend mode (a
\* faulty variant).
setBlendModeNoGuard(m, c, blendMode, blendColor) ==
    IF blendMode \notin DOMAIN blendModes
    THEN [m EXCEPT !.lookup = TRUE, !.fault = TRUE]
    ELSE [m EXCEPT !.lookup = TRUE,
                   !.ctxs[c].state.blend =
                       [color |-> blendColor, enable |-> blendModes[blendMode].enable,
                        equation |-> blendModes[blendMode].equation,
                        func |-> blendModes[blendMode].func],
                   !.ctxs[c].blendMode = blendMode]

\* setBlendMode: blendColor is NoArr when the argument is omitted.  An index
\* without a table entry makes blendModeData undefined, and reading
\* blendModeData.enable throws before anything is assigned.
setBlendMode(m, c, blendMode, blendColor) ==
    IF blendMode = m.ctxs[c].blendMode THEN m
    ELSE IF blendMode \notin DOMAIN blendModes
    THEN [m EXCEPT !.lookup = TRUE, !.fault = TRUE]
    ELSE LET blendModeData == blendModes[blendMode]
         IN  [m EXCEPT !.lookup = TRUE,
                       !.ctxs[c].state.blend =
                           [color |-> blendColor, enable |-> blendModeData.enable,
                            equation |-> blendModeData.equation, func |-> blendModeData.func],
                       !.ctxs[c].blendMode = blendMode]

setCamera(m, c, camera) == [m EXCEPT !.ctxs[c].camera = camera]

\* setClearColor replacing the array whatever the stored color (a faulty
\* variant).
setClearColorAlways(m, c, color) ==
    LET arr == NewArray(m, color)
    IN  [Allocated(m, arr) EXCEPT !.ctxs[c].state.colorClearValue = arr]

\* setClearColor: color is <<r, g, b, a>>.
setClearColor(m, c, color) ==
    IF color = m.ctxs[c].state.colorClearValue.v THEN m
    ELSE LET arr == NewArray(m, color)
         IN  [Allocated(m, arr) EXCEPT !.ctxs[c].state.colorClearValue = arr]

\* setScissorBox: box is <<x, y, width, height>>.
setScissorBox(m, c, box) ==
    LET arr == NewArray(m, box)
    IN  [Allocated(m, arr) EXCEPT !.ctxs[c].state.scissor.box = arr]

\* setScissorEnable applying the state at once (a faulty variant).
setScissorEnableApplied(m, c, enable) ==
    LET m1 == [m EXCEPT !.ctxs[c].state.scissor.enable = enable]
    IN  [m1 EXCEPT !.applied = [m1.ctxs[c].state EXCEPT !.blend.color = @.v,
                                                         !.colorClearValue = @.v,
                                                         !.scissor.box = @.v,
                                                         !.viewport = @.v]]

setScissorEnable(m, c, enable) == [m EXCEPT !.ctxs[c].state.scissor.enable = enable]

\* ------------------------------------------------------- the constructor

\* The options of the constructor.  autoClear is <<>> when omitted, <<b>> for
\* a boolean and <<color, depth, stencil>> for an array; blendMode is 0 when
\* omitted; clearColor is NoArr when omitted; copyFrom is 0 when omitted.
NoOptions ==
    [autoClear |-> <<>>, autoResize |-> FALSE, blendMode |-> 0, camera |-> "null",
     clearColor |-> NoArr, useCanvas |-> FALSE, copyFrom |-> 0]

\* The constructor, up to this.blendMode = -1: the camera and the state
\* object with its three array literals.
ConstructState(m, c, options) ==
    LET m1 == setCamera([m EXCEPT !.ctxs[c] = NoContext], c, options.camera)
        m2 == Allocated(m1, options.clearColor)
        colorClearValue == IF options.clearColor.id # 0 THEN options.clearColor
                           ELSE NewArray(m2, <<0, 0, 0, 0>>)
        m3 == Allocated(m2, colorClearValue)
        box == NewArray(m3, <<0, 0, 0, 0>>)
        m4 == Allocated(m3, box)
        viewport == NewArray(m4, <<0, 0, 0, 0>>)
    IN  [Allocated(m4, viewport) EXCEPT
             !.ctxs[c].state.colorClearValue = colorClearValue,
             !.ctxs[c].state.scissor.box = box,
             !.ctxs[c].state.viewport = viewport,
             !.ctxs[c].blendMode = -1]

\* The constructor's autoClear: all three buffers when the option is
\* omitted or true, the array's when it is an array, nothing otherwise.
ConstructAutoClear(m, c, autoClear) ==
    IF autoClear = <<>> \/ autoClear = <<TRUE>> THEN setAutoClear(m, c, TRUE, TRUE, TRUE)
    ELSE IF Len(autoClear) = 3 THEN setAutoClear(m, c, autoClear[1], autoClear[2], autoClear[3])
    ELSE m

\* ConstructResources subscribing whatever options.autoResize is (a faulty
\* variant).
ConstructResourcesSubscribed(m, c, options, size) ==
    LET m1 == [m EXCEPT !.ctxs[c].useCanvas = options.useCanvas,
                        !.ctxs[c].framebuffer = Null,
                        !.ctxs[c].texture = Null,
                        !.ctxs[c].inUse = FALSE,
                        !.listeners = @ \cup {c}]
    IN  IF options.copyFrom # 0 THEN copy(m1, c, options.copyFrom)
        ELSE resize(m1, c, size[1], size[2])

\* The constructor from this.useCanvas on: the flag, the subscription to
\* the renderer's RESIZE event, and copy or resize.
ConstructResources(m, c, options, size) ==
    LET m1 == [m EXCEPT !.ctxs[c].useCanvas = options.useCanvas,
                        !.ctxs[c].framebuffer = Null,
                        !.ctxs[c].texture = Null,
                        !.ctxs[c].inUse = FALSE,
                        !.listeners = IF options.autoResize THEN @ \cup {c} ELSE @]
    IN  IF options.copyFrom # 0 THEN copy(m1, c, options.copyFrom)
        ELSE resize(m1, c, size[1], size[2])

\* new DrawingContext(renderer, options) into slot c; size is
\* <<renderer.width, renderer.height>>.  A throw of setBlendMode leaves
\* no object behind.
DrawingContext(m, c, options, size) ==
    LET m1 == ConstructState(m, c, options)
        m2 == setBlendMode(m1, c, options.blendMode, NoArr)
        m3 == ConstructAutoClear([m2 EXCEPT !.ctxs[c].autoClear = 0], c, options.autoClear)
        m4 == ConstructResources(m3, c, options, size)
    IN  IF m2.fault THEN [m EXCEPT !.fault = TRUE, !.lookup = m2.lookup]
        ELSE [m4 EXCEPT !.ctxs[c].alive = TRUE]

\* getClone(preserveAutoClear) of context s, the clone going to slot c.
getClone(m, s, c, preserveAutoClear, size) ==
    LET m1 == DrawingContext(m, c, [NoOptions EXCEPT !.copyFrom = s], size)
    IN  IF preserveAutoClear THEN m1 ELSE setAutoClear(m1, c, FALSE, FALSE, FALSE)

\* The values a state descriptor holds, as the GL state machine receives
\* them (arrays by content).
Values(state) ==
    [state EXCEPT !.blend.color = @.v, !.colorClearValue = @.v,
                  !.scissor.box = @.v, !.viewport = @.v]

\* The machine after logging one step of a call, in the order the call made
\* it: e is "flush", "inUse", "update" or "clear"; mask is gl.clear's
\* argument; state and node are the descriptor applied last and the batch
\* node current at the step (for "flush": the node being finished).
Step(m, e, mask) ==
    [m EXCEPT !.ev = Append(@, [e |-> e, mask |-> mask, state |-> m.applied, node |-> m.batch])]

\* renderer.renderNodes.setCurrentBatchNode(node): finishes the current
\* batch and makes node current.
setCurrentBatchNode(m, node) == [Step(m, "flush", 0) EXCEPT !.batch = node]

\* renderer.glWrapper.update(state): the GL state becomes the descriptor's.
update(m, state) == Step([m EXCEPT !.applied = Values(state)], "update", 0)

\* renderer.gl.clear(mask), under the state applied last.
glClear(m, mask) == Step(m, "clear", mask)

beginDraw(m, c) == update(m, m.ctxs[c].state)

\* clear() without beginDraw() (a faulty variant).
clearUnbound(m, c) == glClear(m, m.ctxs[c].autoClear)

clear(m, c) == glClear(beginDraw(m, c), m.ctxs[c].autoClear)

\* use() finishing the batches after the clear (a faulty variant).
useFlushLast(m, c) ==
    LET m1 == Step([m EXCEPT !.ctxs[c].inUse = TRUE], "inUse", 0)
        m2 == IF m1.ctxs[c].autoClear # 0 THEN clear(m1, c) ELSE m1
    IN  setCurrentBatchNode(m2, Null)

\* use() clearing whatever autoClear is (a faulty variant).
useAlwaysClear(m, c) ==
    LET m1 == setCurrentBatchNode(m, Null)
        m2 == Step([m1 EXCEPT !.ctxs[c].inUse = TRUE], "inUse", 0)
    IN  clear(m2, c)

use(m, c) ==
    LET m1 == setCurrentBatchNode(m, Null)
        m2 == Step([m1 EXCEPT !.ctxs[c].inUse = TRUE], "inUse", 0)
    IN  IF m2.ctxs[c].autoClear # 0 THEN clear(m2, c) ELSE m2

release(m, c) ==
    LET m1 == Step([m EXCEPT !.ctxs[c].inUse = FALSE], "inUse", 0)
    IN  setCurrentBatchNode(m1, Null)

\* The renderer's RESIZE event with (width, height): each listener's
\* resize(width, height), in the order of subscription (the slots' order).
RECURSIVE emitResize(_, _, _, _)
emitResize(m, cs, width, height) ==
    IF cs = {} THEN m
    ELSE LET c == CHOOSE x \in cs : \A y \in cs : x <= y
         IN  emitResize(resize(m, c, width, height), cs \ {c}, width, height)

\* ------------------------------------------- the state descriptor factory

\* A heap is the sequence of the objects allocated so far, an object's
\* identity being its index.  A field or element holds a primitive value or
\* a reference to an object; arrays are objects indexed from 1.
Val(x) == [k |-> "val", x |-> x]

Ref(id) == [k |-> "ref", x |-> id]

\* An object or array literal: the heap with the new object, and the
\* reference to it.
New(h, object) == [heap |-> Append(h, object), v |-> Ref(Len(h) + 1)]

\* renderer.blendModes, an array of two entries, each with its own
\* equation and func arrays.
BlendModesHeap ==
    << <<Ref(2), Ref(5)>>,
       [enable |-> Val("true"), equation |-> Ref(3), func |-> Ref(4)],
       <<Val("FUNC_ADD"), Val("FUNC_ADD")>>,
       <<Val("ONE"), Val("ONE_MINUS_SRC_ALPHA")>>,
       [enable |-> Val("true"), equation |-> Ref(6), func |-> Ref(7)],
       <<Val("FUNC_ADD"), Val("FUNC_ADD")>>,
       <<Val("ONE"), Val("DST_ALPHA")>> >>

\* The reference renderer.blendModes holds.
BlendModesRef == Ref(1)

\* CONST.BlendModes.NORMAL, as an index into the array (from 1).
NORMAL == 1

\* DeepCopy(inObject): a primitive as it is; for an object or array a new
\* one, each of whose fields is the DeepCopy of the original's.
RECURSIVE DeepCopy(_, _)
RECURSIVE DeepCopyFields(_, _, _)
DeepCopy(h, v) ==
    IF v.k = "val" THEN [heap |-> h, v |-> v]
    ELSE LET out == New(h, h[v.x])
         IN  DeepCopyFields(out.heap, out.v.x, {key \in DOMAIN h[v.x] : h[v.x][key].k = "ref"})

\* DeepCopy's loop over the keys still holding the original's references.
DeepCopyFields(h, id, keys) ==
    IF keys = {} THEN [heap |-> h, v |-> Ref(id)]
    ELSE LET key == CHOOSE x \in keys : TRUE
             r == DeepCopy(h, h[id][key])
         IN  DeepCopyFields([r.heap EXCEPT ![id][key] = r.v], id, keys \ {key})

\* WebGLStencilParametersFactory.create(renderer): a new object.
StencilCreate(h) == New(h, [enabled |-> Val("false")])

\* getDefault's object literal, first part: the bindings.
Bindings(h) ==
    New(h, [activeTexture |-> Val("0"), arrayBuffer |-> Val("null"),
            elementArrayBuffer |-> Val("null"), framebuffer |-> Val("null"),
            program |-> Val("null")])

\* getDefault's object literal from colorClearValue on, after the bindings
\* and the blend value b (a heap and a value) were evaluated.
Parameters(bindings, b) ==
    LET colorClearValue == New(b.heap, <<Val("0"), Val("0"), Val("0"), Val("1")>>)
        colorWritemask == New(colorClearValue.heap,
                              <<Val("true"), Val("true"), Val("true"), Val("true")>>)
        box == New(colorWritemask.heap, <<Val("0"), Val("0"), Val("0"), Val("0")>>)
        scissor == New(box.heap, [enable |-> Val("false"), box |-> box.v])
        stencil == StencilCreate(scissor.heap)
        texturing == New(stencil.heap, [flipY |-> Val("false"), premultiplyAlpha |-> Val("false")])
        viewport == New(texturing.heap, <<Val("0"), Val("0"), Val("0"), Val("0")>>)
    IN  New(viewport.heap,
            [bindings |-> bindings, blend |-> b.v, colorClearValue |-> colorClearValue.v,
             colorWritemask |-> colorWritemask.v, cullFace |-> Val("false"),
             depthTest |-> Val("false"), scissor |-> scissor.v, stencil |-> stencil.v,
             texturing |-> texturing.v, viewport |-> viewport.v])

\* getDefault handing out the table's own NORMAL entry (a faulty variant).
getDefaultNoCopy(h, renderer) ==
    LET bindings == Bindings(h)
    IN  Parameters(bindings.v, [heap |-> bindings.heap, v |-> h[renderer.x][NORMAL]])

\* getDefault(renderer), renderer.blendModes being the reference renderer.
getDefault(h, renderer) ==
    LET bindings == Bindings(h)
    IN  Parameters(bindings.v, DeepCopy(bindings.heap, h[renderer.x][NORMAL]))

\* ------------------------------------------------------------ the inputs

\* Requested sizes, in fixed point: negative, zero, fractional and whole.
SizeRequests == {<<-6, 0>>, <<1, 6>>}

RendererSizes == {<<Num(2), Num(1)>>}

ClearColors == {<<0, 0, 0, 0>>, <<0, 0, 0, 1>>}

\* setBlendMode's arguments <<blendMode, blendColor>> (<<>> for an omitted
\* blendColor): the sentinel -1, table entries with and without a color, and
\* an index past the table.
BlendArgs ==
    {<<-1, <<>>>>, <<0, <<>>>>, <<1, <<>>>>, <<1, <<1, 1, 1, 1>>>>, <<5, <<>>>>}

ScissorBoxes == {<<Num(1), Num(1), Num(1), Num(1)>>}

AutoClearArgs == {<<FALSE, TRUE, TRUE>>}

Cameras == {"cam"}

\* The option objects callers construct contexts with (clearColor given by
\* its elements, <<>> when omitted).
OptionSets ==
    {[autoClear |-> <<>>, autoResize |-> FALSE, blendMode |-> 0, camera |-> "null",
      clearColor |-> <<>>, useCanvas |-> FALSE, copyFrom |-> 0],
     [autoClear |-> <<TRUE>>, autoResize |-> TRUE, blendMode |-> 0, camera |-> "null",
      clearColor |-> <<>>, useCanvas |-> TRUE, copyFrom |-> 0],
     [autoClear |-> <<FALSE>>, autoResize |-> TRUE, blendMode |-> 1, camera |-> "cam",
      clearColor |-> <<0, 0, 0, 1>>, useCanvas |-> FALSE, copyFrom |-> 0],
     [autoClear |-> <<TRUE, FALSE, FALSE>>, autoResize |-> FALSE, blendMode |-> -1, camera |-> "null",
      clearColor |-> <<>>, useCanvas |-> FALSE, copyFrom |-> 0],
     [autoClear |-> <<>>, autoResize |-> FALSE, blendMode |-> 5, camera |-> "null",
      clearColor |-> <<>>, useCanvas |-> FALSE, copyFrom |-> 0]}
    \cup {[autoClear |-> <<>>, autoResize |-> FALSE, blendMode |-> 0, camera |-> "null",
           clearColor |-> <<>>, useCanvas |-> FALSE, copyFrom |-> s] : s \in Ctx}

\* The caller's array literal for the elements v (NoArr when omitted).
Literal(m, v) == IF v = <<>> THEN NoArr ELSE NewArray(m, v)

\* ----------------------------------------------------------- the actions

Alive == {c \in Ctx : ctxs[c].alive}

\* The slot of the next object to be constructed.
FreeSlot == CHOOSE c \in Ctx : ~ctxs[c].alive /\ \A d \in 1..(c - 1) : ctxs[d].alive

\* The call returned (or threw) leaving the machine m.
Returns(m, op, c, s, a) ==
    /\ ops < MaxOps
    /\ m.gpu.next <= MaxHandles + 1
    /\ ctxs' = m.ctxs
    /\ gpu' = m.gpu
    /\ listeners' = m.listeners
    /\ ops' = ops + 1
    /\ last' = [op |-> op, c |-> c, s |-> s, a |-> a, fault |-> m.fault, lookup |-> m.lookup,
                ev |-> m.ev]
    /\ applied' = m.applied
    /\ batch' = m.batch
    /\ UNCHANGED <<rsize, fac>>

Construct(options) ==
    /\ Alive # Ctx
    /\ options.copyFrom \in Alive \cup {0}
    /\ LET clearColor == Literal(Machine, options.clearColor)
           o == [options EXCEPT !.clearColor = clearColor]
       IN  Returns(DrawingContext(Machine, FreeSlot, o, rsize), "new", FreeSlot,
                   options.copyFrom, <<options.blendMode, IF options.autoResize THEN 1 ELSE 0>>)

GetClone(s, preserveAutoClear) ==
    /\ Alive # Ctx
    /\ s \in Alive
    /\ Returns(getClone(Machine, s, FreeSlot, preserveAutoClear, rsize), "getClone", FreeSlot,
               s, <<IF preserveAutoClear THEN 1 ELSE 0>>)

Resize(c, size) ==
    /\ c \in Alive
    /\ Returns(resize(Machine, c, size[1], size[2]), "resize", c, 0, size)

Copy(c, s) ==
    /\ c \in Alive
    /\ s \in Alive
    /\ Returns(copy(Machine, c, s), "copy", c, s, <<>>)

SetAutoClear(c, a) ==
    /\ c \in Alive
    /\ Returns(setAutoClear(Machine, c, a[1], a[2], a[3]), "setAutoClear", c, 0, <<>>)

SetBlendMode(c, blendMode, blendColor) ==
    /\ c \in Alive
    /\ LET color == Literal(Machine, blendColor)
       IN  Returns(setBlendMode(Allocated(Machine, color), c, blendMode, color),
                   "setBlendMode", c, 0, <<blendMode, Len(blendColor)>>)

SetCamera(c, camera) ==
    /\ c \in Alive
    /\ Returns(setCamera(Machine, c, camera), "setCamera", c, 0, <<>>)

SetClearColor(c, color) ==
    /\ c \in Alive
    /\ Returns(setClearColor(Machine, c, color), "setClearColor", c, 0, color)

SetScissorBox(c, box) ==
    /\ c \in Alive
    /\ Returns(setScissorBox(Machine, c, box), "setScissorBox", c, 0, box)

SetScissorEnable(c, enable) ==
    /\ c \in Alive
    /\ Returns(setScissorEnable(Machine, c, enable), "setScissorEnable", c, 0, <<>>)

Use(c) ==
    /\ c \in Alive
    /\ Returns(use(Machine, c), "use", c, 0, <<>>)

Release(c) ==
    /\ c \in Alive
    /\ Returns(release(Machine, c), "release", c, 0, <<>>)

BeginDraw(c) ==
    /\ c \in Alive
    /\ Returns(beginDraw(Machine, c), "beginDraw", c, 0, <<>>)

Clear(c) ==
    /\ c \in Alive
    /\ Returns(clear(Machine, c), "clear", c, 0, <<>>)

\* A render node starts batching the drawing made under context c.
Draw(c) ==
    /\ c \in Alive
    /\ batch # c
    /\ Returns(setCurrentBatchNode(Machine, c), "draw", c, 0, <<>>)

\* The renderer is resized and tells its listeners.
RendererResize(size) ==
    /\ ops < MaxOps
    /\ LET m == emitResize(Machine, listeners, size[1], size[2])
       IN  /\ m.gpu.next <= MaxHandles + 1
           /\ ctxs' = m.ctxs
           /\ gpu' = m.gpu
           /\ last' = [op |-> "rendererResize", c |-> 0, s |-> 0, a |-> size, fault |-> FALSE,
                       lookup |-> FALSE, ev |-> m.ev]
    /\ rsize' = size
    /\ ops' = ops + 1
    /\ UNCHANGED <<listeners, applied, batch, fac>>

Init ==
    /\ ctxs = [c \in Ctx |-> NoContext]
    /\ gpu = NoGpu
    /\ rsize \in RendererSizes
    /\ listeners = {}
    /\ ops = 0
    /\ last = [op |-> "none", c |-> 0, s |-> 0, a |-> <<>>, fault |-> FALSE, lookup |-> FALSE,
               ev |-> <<>>]
    /\ applied = Values(NoContext.state)
    /\ batch = Null
    /\ fac = [heap |-> BlendModesHeap, descs |-> <<>>]

Next ==
    \/ \E options \in OptionSets : Construct(options)
    \/ \E s \in Ctx, p \in BOOLEAN : GetClone(s, p)
    \/ \E c \in Ctx, size \in SizeRequests : Resize(c, size)
    \/ \E c \in Ctx, s \in Ctx : Copy(c, s)
    \/ \E c \in Ctx, a \in AutoClearArgs : SetAutoClear(c, a)
    \/ \E c \in Ctx, b \in BlendArgs : SetBlendMode(c, b[1], b[2])
    \/ \E c \in Ctx, camera \in Cameras : SetCamera(c, camera)
    \/ \E c \in Ctx, color \in ClearColors : SetClearColor(c, color)
    \/ \E c \in Ctx, box \in ScissorBoxes : SetScissorBox(c, box)
    \/ \E c \in Ctx : SetScissorEnable(c, FALSE)

Spec == Init /\ [][Next]_vars

\* Drawing: contexts are made, copied, resized and given clear settings,
\* used, drawn under and released, and the renderer is resized.
NextDraw ==
    \/ \E options \in OptionSets : Construct(options)
    \/ \E s \in Ctx, p \in BOOLEAN : GetClone(s, p)
    \/ \E c \in Ctx, size \in SizeRequests : Resize(c, size)
    \/ \E c \in Ctx, s \in Ctx : Copy(c, s)
    \/ \E c \in Ctx, a \in AutoClearArgs : SetAutoClear(c, a)
    \/ \E c \in Ctx, color \in ClearColors : SetClearColor(c, color)
    \/ \E c \in Ctx : Use(c)
    \/ \E c \in Ctx : Release(c)
    \/ \E c \in Ctx : BeginDraw(c)
    \/ \E c \in Ctx : Clear(c)
    \/ \E c \in Ctx : Draw(c)
    \/ \E size \in SizeRequests : RendererResize(size)

SpecDraw == Init /\ [][NextDraw]_vars

\* Every operation, on shorter runs.
Within == ops < MaxAllOps

NextAll ==
    \/ Within /\ \E options \in OptionSets : Construct(options)
    \/ Within /\ \E s \in Ctx, p \in BOOLEAN : GetClone(s, p)
    \/ Within /\ \E c \in Ctx, size \in SizeRequests : Resize(c, size)
    \/ Within /\ \E c \in Ctx, s \in Ctx : Copy(c, s)
    \/ Within /\ \E c \in Ctx, a \in AutoClearArgs : SetAutoClear(c, a)
    \/ Within /\ \E c \in Ctx, b \in BlendArgs : SetBlendMode(c, b[1], b[2])
    \/ Within /\ \E c \in Ctx, camera \in Cameras : SetCamera(c, camera)
    \/ Within /\ \E c \in Ctx, color \in ClearColors : SetClearColor(c, color)
    \/ Within /\ \E c \in Ctx, box \in ScissorBoxes : SetScissorBox(c, box)
    \/ Within /\ \E c \in Ctx : SetScissorEnable(c, FALSE)
    \/ Within /\ \E c \in Ctx : Use(c)
    \/ Within /\ \E c \in Ctx : Release(c)
    \/ Within /\ \E c \in Ctx : BeginDraw(c)
    \/ Within /\ \E c \in Ctx : Clear(c)
    \/ Within /\ \E c \in Ctx : Draw(c)
    \/ Within /\ \E size \in SizeRequests : RendererResize(size)

SpecAll == Init /\ [][NextAll]_vars

\* The objects reachable from the value v.
RECURSIVE Reach(_, _)
Reach(h, v) ==
    IF v.k = "val" THEN {}
    ELSE {v.x} \cup UNION {Reach(h, h[v.x][key]) : key \in DOMAIN h[v.x]}

\* The field or element of object id that is written: its first one holding
\* a primitive.
Primitives(h, id) ==
    LET keys == {key \in DOMAIN h[id] : h[id][key].k = "val"}
    IN  IF keys = {} THEN {} ELSE {CHOOSE key \in keys : TRUE}

\* The descriptor fields a caller writes into.
DescriptorFields == {"blend", "colorClearValue", "colorWritemask", "scissor", "viewport"}

GetDefault ==
    /\ ops < MaxOps
    /\ Len(fac.descs) < MaxDescs
    /\ LET r == getDefault(fac.heap, BlendModesRef)
       IN  fac' = [heap |-> r.heap, descs |-> Append(fac.descs, r.v)]
    /\ ops' = ops + 1
    /\ last' = [op |-> "getDefault", c |-> Len(fac.descs) + 1, s |-> 0, a |-> <<>>,
                fault |-> FALSE, lookup |-> FALSE, ev |-> <<>>]
    /\ UNCHANGED <<ctxs, gpu, rsize, listeners, applied, batch>>

\* The assignment object[key] = "changed" to a primitive field or element
\* of the object id.
Write(op, d, field, id, key) ==
    /\ ops < MaxOps
    /\ fac.heap[id][key] # Val("changed")
    /\ fac' = [fac EXCEPT !.heap[id][key] = Val("changed")]
    /\ ops' = ops + 1
    /\ last' = [op |-> op, c |-> d, s |-> id, a |-> <<field>>,
                fault |-> FALSE, lookup |-> FALSE, ev |-> <<>>]
    /\ UNCHANGED <<ctxs, gpu, rsize, listeners, applied, batch>>

\* A caller writes into a part of the descriptor d it was given.
WriteDescriptor(d, field) ==
    /\ d \in 1..Len(fac.descs)
    /\ \E id \in Reach(fac.heap, fac.heap[fac.descs[d].x][field]) :
           \E key \in Primitives(fac.heap, id) : Write("writeDescriptor", d, field, id, key)

\* The renderer writes into an entry of renderer.blendModes.
WriteBlendModes ==
    \E id \in Reach(fac.heap, BlendModesRef) :
        \E key \in Primitives(fac.heap, id) : Write("writeBlendModes", 0, "", id, key)

NextFactory ==
    \/ GetDefault
    \/ \E d \in 1..MaxDescs, field \in DescriptorFields : WriteDescriptor(d, field)
    \/ WriteBlendModes

SpecFactory == Init /\ [][NextFactory]_vars

\* ------------------------------------------------------------ the claims

\* The call l ran copy(): copy itself, the constructor with copyFrom, or
\* getClone; l.c is the destination and l.s the source.
IsCopyCall(l) == l.op \in {"copy", "getClone"} \/ (l.op = "new" /\ l.s # 0 /\ ~l.fault)

\* The integer nearest to x, halves going up (stated without MathRound).
Nearest(x) == CHOOSE n \in (x - SizeDen)..(x + SizeDen) : IsInteger(n) /\ 2 * n - SizeDen <= 2 * x /\ 2 * x < 2 * n + SizeDen

\* 1 where the rounded request is <= 0, the rounded request otherwise.
Clamped(x) == IF Nearest(x) <= 0 THEN Num(1) ELSE Nearest(x)

\* C1: after resize(width, height), whatever the requested sizes (zero,
\* negative, fractional), width and height are integers >= 1: the rounded
\* request, or 1 when the rounded request is <= 0; and state.scissor.box and
\* state.viewport both equal [0, 0, width, height] with those stored values.
C1_ResizeClampsAndResets ==
    (last.op = "resize") =>
        LET self == ctxs[last.c]
        IN  /\ IsInteger(self.width) /\ self.width >= Num(1)
            /\ IsInteger(self.height) /\ self.height >= Num(1)
            /\ self.width = Clamped(last.a[1])
            /\ self.height = Clamped(last.a[2])
            /\ self.state.scissor.box.v = <<0, 0, self.width, self.height>>
            /\ self.state.viewport.v = <<0, 0, self.width, self.height>>

\* A resize with a negative and a zero request has returned.
C1_Witness ==
    /\ last.op = "resize"
    /\ last.a[1] < 0
    /\ last.a[2] = 0
    /\ ctxs[last.c].width = Num(1)
    /\ ctxs[last.c].height = Num(1)

\* C2: after D.copy(A) (or D constructed with copyFrom = A), D's
\* colorClearValue, scissor.box and viewport are value-equal to A's and are
\* distinct storage.
C2_CopyEqualDistinctArrays ==
    (IsCopyCall(last) /\ last.c # last.s) =>
        LET D == ctxs[last.c].state
            A == ctxs[last.s].state
        IN  /\ D.colorClearValue.v = A.colorClearValue.v
            /\ D.colorClearValue.id # A.colorClearValue.id
            /\ D.scissor.box.v = A.scissor.box.v
            /\ D.scissor.box.id # A.scissor.box.id
            /\ D.viewport.v = A.viewport.v
            /\ D.viewport.id # A.viewport.id

\* C3: after D.copy(S), new DrawingContext(renderer, {copyFrom: S}) or
\* S.getClone(), neither S.texture nor S.framebuffer has been passed to
\* deleteTexture / deleteFramebuffer.
C3_SourceResourcesNotDeleted ==
    (IsCopyCall(last) /\ last.c # last.s) =>
        /\ ctxs[last.s].texture \notin gpu.deletedTextures
        /\ ctxs[last.s].framebuffer \notin gpu.deletedFramebuffers

\* C4: every context with useCanvas false has a non-null framebuffer and a
\* non-null texture, and no two distinct non-canvas contexts hold the same
\* framebuffer or the same texture.
C4_OwnResources ==
    /\ \A c \in Alive :
           ~ctxs[c].useCanvas => ctxs[c].framebuffer # Null /\ ctxs[c].texture # Null
    /\ \A c, d \in Alive :
           (c # d /\ ~ctxs[c].useCanvas /\ ~ctxs[d].useCanvas) =>
               /\ ctxs[c].framebuffer # ctxs[d].framebuffer
               /\ ctxs[c].texture # ctxs[d].texture

\* A non-canvas context has just copied another non-canvas context.
C4_Witness ==
    /\ last.op = "copy"
    /\ last.c # last.s
    /\ ~ctxs[last.c].useCanvas
    /\ ~ctxs[last.s].useCanvas

\* C5: copy(S) (also when run by the constructor or getClone) with S.useCanvas true leaves D.framebuffer the same handle as
\* S.framebuffer and creates no texture or framebuffer; with S.useCanvas
\* false D ends with a newly created texture of size S.width x S.height and
\* a newly created framebuffer wrapping it, both different handles from
\* S.texture and S.framebuffer.
C5_CopyAliasesOnlyCanvas ==
    [][IsCopyCall(last') =>
          LET S == ctxs[last'.s]
              D == ctxs'[last'.c]
          IN  IF S.useCanvas
              THEN /\ D.framebuffer = S.framebuffer
                   /\ gpu'.next = gpu.next
                   /\ gpu'.textures = gpu.textures
                   /\ gpu'.framebuffers = gpu.framebuffers
              ELSE /\ D.texture \notin Created(gpu)
                   /\ D.framebuffer \notin Created(gpu)
                   /\ [h |-> D.texture, width |-> S.width, height |-> S.height] \in gpu'.textures
                   /\ [h |-> D.framebuffer, texture |-> D.texture] \in gpu'.framebuffers
                   /\ D.texture # S.texture
                   /\ D.framebuffer # S.framebuffer]_vars

\* A context has just copied another, canvas-backed context and shares its
\* framebuffer, in a run where textures were created.
C5_Witness ==
    /\ last.op = "copy"
    /\ last.c # last.s
    /\ ctxs[last.s].useCanvas
    /\ gpu.textures # {}
    /\ ctxs[last.c].framebuffer = ctxs[last.s].framebuffer

\* C6: getClone(preserveAutoClear) returns a context whose autoClear is 0
\* when preserveAutoClear is false or omitted, and the source's autoClear at
\* the time of the call when it is true.
C6_CloneAutoClear ==
    [][(last'.op = "getClone") =>
          ctxs'[last'.c].autoClear =
              (IF last'.a[1] = 1 THEN ctxs[last'.s].autoClear ELSE 0)]_vars

\* A clone has preserved a mask that is neither empty nor the constructor's
\* default.
C6_Witness ==
    /\ last.op = "getClone"
    /\ last.a[1] = 1
    /\ ctxs[last.c].autoClear \notin {0, AutoClearMask(TRUE, TRUE, TRUE)}

\* C7: in every state, blendMode and state.blend are consistent:
\* state.blend.enable, .equation and .func are those of
\* renderer.blendModes[blendMode].
C7_BlendConsistent ==
    \A c \in Alive :
        /\ ctxs[c].blendMode \in DOMAIN blendModes
        /\ ctxs[c].state.blend.enable = blendModes[ctxs[c].blendMode].enable
        /\ ctxs[c].state.blend.equation = blendModes[ctxs[c].blendMode].equation
        /\ ctxs[c].state.blend.func = blendModes[ctxs[c].blendMode].func

\* C8: setBlendMode(blendMode, blendColor) with blendMode equal to the
\* current blendMode reads no table entry and leaves blendMode and every
\* field of state.blend unchanged, whatever blendColor is passed.
C8_SameBlendModeNoOp ==
    [][(last'.op = "setBlendMode" /\ last'.a[1] = ctxs[last'.c].blendMode) =>
          /\ ~last'.lookup
          /\ ctxs'[last'.c].blendMode = ctxs[last'.c].blendMode
          /\ ctxs'[last'.c].state.blend = ctxs[last'.c].state.blend]_vars

\* setBlendMode was called with the current mode and a blend color on a
\* context that has no blend color.
C8_Witness ==
    /\ last.op = "setBlendMode"
    /\ last.a = <<ctxs[last.c].blendMode, 4>>
    /\ ~last.lookup
    /\ ctxs[last.c].state.blend.color = NoArr

\* C9: setBlendMode with an index that has no entry in renderer.blendModes
\* ends in a fault, and leaves blendMode and state.blend as they were.
C9_InvalidIndexFaults ==
    [][(last'.op = "setBlendMode" /\ last'.a[1] \notin DOMAIN blendModes) =>
          /\ last'.fault
          /\ ctxs'[last'.c].blendMode = ctxs[last'.c].blendMode
          /\ ctxs'[last'.c].state.blend = ctxs[last'.c].state.blend]_vars

\* C10: setClearColor(r, g, b, a) leaves state.colorClearValue the very same
\* array when the four components equal the stored ones, and otherwise
\* replaces it with a new array equal to [r, g, b, a]; nothing else changes.
C10_SetClearColor ==
    [][(last'.op = "setClearColor") =>
          LET old == ctxs[last'.c].state.colorClearValue
              new == ctxs'[last'.c].state.colorClearValue
          IN  /\ IF last'.a = old.v THEN new = old
                 ELSE new.v = last'.a /\ new.id \notin ArrayIds(ctxs)
              /\ ctxs' = [ctxs EXCEPT ![last'.c].state.colorClearValue = new]
              /\ gpu' = gpu
              /\ listeners' = listeners
              /\ rsize' = rsize]_vars

\* setClearColor has replaced the stored color by one differing in the
\* alpha component only.
C10_Witness ==
    /\ last.op = "setClearColor"
    /\ last.a = <<0, 0, 0, 1>>
    /\ ctxs[last.c].state.colorClearValue.v = <<0, 0, 0, 1>>
    /\ ctxs[last.c].blendMode = -1

\* C11: constructing a canvas context creates exactly one framebuffer, the
\* canvas's wrapper, and no texture; every later resize of it, called
\* directly or by the renderer's RESIZE event, creates nothing and deletes
\* nothing, leaves its framebuffer the same handle and its texture null.
C11_CanvasFramebufferOnce ==
    [][/\ (last'.op = "new" /\ last'.s = 0 /\ ~last'.fault /\ ctxs'[last'.c].useCanvas) =>
            /\ gpu' = createFramebuffer(gpu, Null)
            /\ ctxs'[last'.c].framebuffer = gpu.next
            /\ ctxs'[last'.c].texture = Null
       /\ (last'.op = "resize" /\ ctxs[last'.c].useCanvas) =>
            /\ gpu' = gpu
            /\ ctxs'[last'.c].framebuffer = ctxs[last'.c].framebuffer
            /\ ctxs'[last'.c].framebuffer # Null
            /\ ctxs'[last'.c].texture = Null
       /\ last'.op = "rendererResize" =>
            /\ \A c \in listeners : ctxs[c].useCanvas =>
                   /\ ctxs'[c].framebuffer = ctxs[c].framebuffer
                   /\ ctxs'[c].framebuffer \notin gpu'.deletedFramebuffers \cup {Null}
                   /\ ctxs'[c].texture = Null
            /\ (\A c \in listeners : ctxs[c].useCanvas) => gpu' = gpu
      ]_vars

\* A canvas context made by the constructor has been resized twice, the
\* second time by the renderer's RESIZE event.
C11_Witness ==
    /\ last.op = "rendererResize"
    /\ ops = 3
    /\ \E c \in listeners :
           /\ ctxs[c].useCanvas
           /\ ctxs[c].width = Num(1)
           /\ gpu.framebuffers = {[h |-> ctxs[c].framebuffer, texture |-> Null]}

\* The masks of the gl.clear calls among the steps ev, in order.
RECURSIVE ClearMasks(_)
ClearMasks(ev) ==
    IF ev = <<>> THEN <<>>
    ELSE IF Head(ev).e = "clear" THEN <<Head(ev).mask>> \o ClearMasks(Tail(ev))
    ELSE ClearMasks(Tail(ev))

\* C12: use() leaves inUse true and issues exactly one gl.clear, with
\* autoClear as its mask, when autoClear is non-zero, and none when autoClear
\* is 0; release() leaves inUse false and issues no clear; use() followed by
\* release() on a context whose autoClear is 0 issues no clear at all and
\* leaves inUse false.
C12_UseClearsReleaseDoesNot ==
    [][/\ last'.op = "use" =>
            /\ ctxs'[last'.c].inUse
            /\ ClearMasks(last'.ev) = IF ctxs[last'.c].autoClear # 0
                                       THEN <<ctxs[last'.c].autoClear>> ELSE <<>>
       /\ last'.op = "release" =>
            /\ ~ctxs'[last'.c].inUse
            /\ ClearMasks(last'.ev) = <<>>
       /\ (last.op = "use" /\ last'.op = "release" /\ last.c = last'.c
             /\ ctxs[last.c].autoClear = 0) =>
            /\ ClearMasks(last.ev \o last'.ev) = <<>>
            /\ ~ctxs'[last'.c].inUse
      ]_vars

\* use() has cleared the color buffer alone, on a context made with
\* autoClear [ true, false, false ].
C12_Witness ==
    /\ last.op = "use"
    /\ ctxs[last.c].inUse
    /\ ctxs[last.c].autoClear = COLOR_BUFFER_BIT
    /\ ClearMasks(last.ev) = <<COLOR_BUFFER_BIT>>

\* C13: in every state between calls, every constructed context (made by
\* the constructor, with copyFrom, or by getClone) has an integer width and
\* an integer height, both at least 1, and state.viewport is
\* [0, 0, width, height].
C13_SizeAndViewport ==
    \A c \in Alive :
        /\ IsInteger(ctxs[c].width) /\ ctxs[c].width >= Num(1)
        /\ IsInteger(ctxs[c].height) /\ ctxs[c].height >= Num(1)
        /\ ctxs[c].state.viewport.v = <<0, 0, ctxs[c].width, ctxs[c].height>>

\* The renderer's RESIZE event has given a listener a fractional size: a
\* width rounding to 0 and a height rounding up to 2.
C13_Witness ==
    /\ last.op = "rendererResize"
    /\ last.a = <<1, 6>>
    /\ \E c \in listeners : ctxs[c].width = Num(1) /\ ctxs[c].height = Num(2)

\* The value under v: primitives as they are, objects and arrays by their
\* fields' values.
RECURSIVE Deref(_, _)
Deref(h, v) ==
    IF v.k = "val" THEN v ELSE [key \in DOMAIN h[v.x] |-> Deref(h, h[v.x][key])]

\* The value of field of the descriptor d in the factory state f.
FieldValue(f, d, field) == Deref(f.heap, f.heap[f.descs[d].x][field])

\* The objects under field of the descriptor d in the factory state f.
Storage(f, d, field) == Reach(f.heap, f.heap[f.descs[d].x][field])

\* C14: the blend of the descriptor getDefault returns equals the table's
\* NORMAL entry as it is at the call; a write into any listed part of a
\* descriptor changes no value in renderer.blendModes and none in another
\* descriptor; a write into renderer.blendModes changes no descriptor; and
\* two descriptors, and a descriptor and the table, have no object in
\* common under blend, scissor, viewport, colorClearValue or colorWritemask.
C14_DescriptorDecoupled ==
    [][/\ last'.op = "getDefault" =>
            /\ FieldValue(fac', last'.c, "blend") = Deref(fac.heap, fac.heap[BlendModesRef.x][NORMAL])
            /\ Deref(fac'.heap, BlendModesRef) = Deref(fac.heap, BlendModesRef)
       /\ last'.op = "writeDescriptor" =>
            /\ Deref(fac'.heap, BlendModesRef) = Deref(fac.heap, BlendModesRef)
            /\ \A d \in 1..Len(fac.descs), field \in DescriptorFields :
                   d # last'.c => FieldValue(fac', d, field) = FieldValue(fac, d, field)
       /\ last'.op = "writeBlendModes" =>
            \A d \in 1..Len(fac.descs), field \in DescriptorFields :
                FieldValue(fac', d, field) = FieldValue(fac, d, field)
       /\ \A d \in 1..Len(fac'.descs), field \in DescriptorFields :
            /\ Storage(fac', d, field) \cap Reach(fac'.heap, BlendModesRef) = {}
            /\ \A e \in 1..Len(fac'.descs), other \in DescriptorFields :
                   d # e => Storage(fac', d, field) \cap Storage(fac', e, other) = {}
      ]_vars

\* Of two descriptors the first had an element of its blend.func written,
\* and it now differs there from the table and from the second.
C14_Witness ==
    /\ last.op = "writeDescriptor"
    /\ last.c = 1
    /\ last.a = <<"blend">>
    /\ Len(fac.descs) = 2
    /\ FieldValue(fac, 1, "blend").func # FieldValue(fac, 2, "blend").func
    /\ FieldValue(fac, 2, "blend") = Deref(fac.heap, fac.heap[BlendModesRef.x][NORMAL])

\* C15: a context is subscribed to the renderer's RESIZE event exactly when
\* it was constructed with options.autoResize true, and no other call
\* (copy and getClone included) subscribes any context; the event with
\* (w, h) leaves every subscribed context with the clamped rounded w and h
\* as its size and every other context with its width, height, framebuffer
\* and texture as they were.
C15_OnlyAutoResizeFollowsRenderer ==
    [][/\ (last'.op = "new" /\ ~last'.fault) =>
            /\ last'.c \in listeners' <=> last'.a[2] = 1
            /\ listeners' \ {last'.c} = listeners
       /\ (last'.op # "new" \/ last'.fault) => listeners' = listeners
       /\ last'.op = "getClone" => last'.c \notin listeners'
       /\ last'.op = "rendererResize" =>
            \A c \in Alive :
                IF c \in listeners
                THEN /\ ctxs'[c].width = Clamped(last'.a[1])
                     /\ ctxs'[c].height = Clamped(last'.a[2])
                ELSE /\ ctxs'[c].width = ctxs[c].width
                     /\ ctxs'[c].height = ctxs[c].height
                     /\ ctxs'[c].framebuffer = ctxs[c].framebuffer
                     /\ ctxs'[c].texture = ctxs[c].texture
      ]_vars

\* The RESIZE event has resized a non-canvas context made with autoResize
\* and recreated its texture, while its clone kept the size it was made
\* with.
C15_Witness ==
    /\ last.op = "rendererResize"
    /\ last.a = <<-6, 0>>
    /\ \E c \in listeners, d \in Alive \ listeners :
           /\ ~ctxs[c].useCanvas
           /\ ctxs[c].width = Num(1)
           /\ ctxs[c].texture \in {t.h : t \in {x \in gpu.textures : x.width = Num(1)}}
           /\ ~ctxs[d].useCanvas
           /\ ctxs[d].state.blend = ctxs[c].state.blend
           /\ ctxs[d].camera = ctxs[c].camera
           /\ ctxs[d].width = Num(2)

\* The positions in ev of the steps of kind e.
Positions(ev, e) == {i \in 1..Len(ev) : ev[i].e = e}

\* C16: use() and release() each call setCurrentBatchNode(null) exactly
\* once and return with no current batch node; in use() that call is the
\* first step, before inUse is set and before any state is applied or any
\* clear issued, so no batch node is current when use() clears.
C16_FlushOnceAndFirst ==
    last.op \in {"use", "release"} =>
        /\ Cardinality(Positions(last.ev, "flush")) = 1
        /\ batch = Null
        /\ last.op = "use" =>
              /\ last.ev[1].e = "flush"
              /\ \A i \in 2..Len(last.ev) : last.ev[i].node = Null

\* use() on a context with a non-zero autoClear has finished the batch
\* drawn under another context, then set inUse, applied its state and
\* cleared.
C16_Witness ==
    /\ last.op = "use"
    /\ Len(last.ev) = 4
    /\ last.ev[1].node \in Alive \ {last.c}
    /\ last.ev[4].e = "clear"

\* C17: a call applies a state descriptor to the GL state, or changes the
\* descriptor applied last, only if it is beginDraw(), clear(), or use() on
\* a context with a non-zero autoClear (so never a setter, resize, copy,
\* getClone, the constructor or release); and what such a call applies is
\* the whole current state of its context.
C17_StateAppliedOnlyWhenDrawing ==
    [][/\ (Positions(last'.ev, "update") # {} \/ applied' # applied) =>
            \/ last'.op \in {"beginDraw", "clear"}
            \/ last'.op = "use" /\ ctxs[last'.c].autoClear # 0
       /\ \A i \in Positions(last'.ev, "update") :
            /\ last'.ev[i].state = Values(ctxs'[last'.c].state)
            /\ applied' = Values(ctxs'[last'.c].state)
            /\ ctxs'[last'.c].state = ctxs[last'.c].state
      ]_vars

\* setClearColor changed the clear color of a context whose state had been
\* applied: the applied descriptor still has the old color.
C17_Witness ==
    /\ last.op = "setClearColor"
    /\ applied.bindings.framebuffer = ctxs[last.c].framebuffer
    /\ applied.viewport = ctxs[last.c].state.viewport.v
    /\ applied.colorClearValue # ctxs[last.c].state.colorClearValue.v
    /\ ctxs[last.c].state.colorClearValue.v = last.a

\* C18: gl.clear is issued only by clear() and use(); the step before it
\* applied a state, the state in force at the clear is the whole state of
\* the context the call was made on (so the bound framebuffer is the
\* context's framebuffer and the clear color its colorClearValue), and the
\* mask is the context's autoClear.
C18_ClearUnderOwnState ==
    \A i \in Positions(last.ev, "clear") :
        /\ last.op \in {"clear", "use"}
        /\ i > 1 /\ last.ev[i - 1].e = "update"
        /\ last.ev[i].state = Values(ctxs[last.c].state)
        /\ last.ev[i].state.bindings.framebuffer = ctxs[last.c].framebuffer
        /\ last.ev[i].state.colorClearValue = ctxs[last.c].state.colorClearValue.v
        /\ last.ev[i].mask = ctxs[last.c].autoClear

\* use() cleared a context while the state applied last was that of
\* another context, bound to another framebuffer.
C18_Witness ==
    /\ last.op = "use"
    /\ Positions(last.ev, "clear") = {4}
    /\ last.ev[1].state.bindings.framebuffer \notin {Null, ctxs[last.c].framebuffer}
    /\ last.ev[4].state.bindings.framebuffer = ctxs[last.c].framebuffer

\* C19: after every call state.bindings.framebuffer of every constructed
\* context is the handle in its framebuffer field, and the framebuffer a
\* resize() of a non-canvas context deletes is the one the context held
\* when resize() was called.
C19_BindingIsFramebuffer ==
    [][/\ \A c \in Ctx :
            ctxs'[c].alive => ctxs'[c].state.bindings.framebuffer = ctxs'[c].framebuffer
       /\ (last'.op = "resize" /\ ~ctxs[last'.c].useCanvas) =>
            gpu'.deletedFramebuffers = gpu.deletedFramebuffers \cup {ctxs[last'.c].framebuffer}
      ]_vars

\* A non-canvas context was resized when two framebuffers had been
\* deleted before: it holds the third one made, bound in its state, and the
\* one it held is deleted.
C19_Witness ==
    /\ last.op = "resize"
    /\ ~ctxs[last.c].useCanvas
    /\ Cardinality(gpu.framebuffers) = 3
    /\ Cardinality(gpu.deletedFramebuffers) = 2
    /\ ctxs[last.c].state.bindings.framebuffer = ctxs[last.c].framebuffer
    /\ \A f \in gpu.framebuffers : f.h <= ctxs[last.c].framebuffer

\* C20: every texture and every framebuffer created and not deleted is
\* held by some constructed context.
C20_NoLeak ==
    /\ \A t \in gpu.textures :
           t.h \notin gpu.deletedTextures => \E c \in Alive : ctxs[c].texture = t.h
    /\ \A f \in gpu.framebuffers :
           f.h \notin gpu.deletedFramebuffers => \E c \in Alive : ctxs[c].framebuffer = f.h

====
